---------------------------- MODULE Spec2Model ----------------------------
(***************************************************************************)
(* Model of src/app/booking-form/booking-form.component.ts: the custom     *)
(* validators, the reactive booking form built in the constructor, the     *)
(* passenger synchroniser, the price calculator, the destination filter    *)
(* and onSubmit.                                                           *)
(*                                                                         *)
(* Representation.  A JavaScript string on which the code works character  *)
(* by character (dni, phone, fullName, email, the search query, the        *)
(* destinations) is a tuple of one-character strings; "" is << >>.         *)
(* Enumerated strings (travelClass, tripType, destination) are TLA+        *)
(* strings.  A date input value is << >> (the empty string) or             *)
(* <<year, month, day>>; new Date(v) orders such values lexicographically  *)
(* and getFullYear() is the first component (the browser is taken to run   *)
(* in UTC).  The number input "passengers" holds null or a number.         *)
(* ValidationErrors | null is the set of the error keys, null being {}.    *)
(***************************************************************************)
EXTENDS Integers, Sequences, FiniteSets, TLC

VARIABLES
    bookingForm,          \* bookingForm.value, additionalPassengers included
    errors,               \* control name -> errors of that control
    formErrors,           \* bookingForm.errors (the group validator)
    emailStatus,          \* status of the email control
    emailChecks,          \* subscribed, not yet delivered async validations
    emailSuperseded,      \* the last email change replaced a check in flight
    totalPrice,
    destinations,
    filteredDestinations,
    searchControl,
    today,                \* new Date() of the session
    consoleLog            \* last line written by onSubmit

vars == <<bookingForm, errors, formErrors, emailStatus, emailChecks,
          emailSuperseded, totalPrice, destinations, filteredDestinations,
          searchControl, today, consoleLog>>

-----------------------------------------------------------------------------
(* Characters and strings *)

UpperLetters == <<"A","B","C","D","E","F","G","H","I","J","K","L","M",
                  "N","O","P","Q","R","S","T","U","V","W","X","Y","Z">>

LowerLetters == <<"a","b","c","d","e","f","g","h","i","j","k","l","m",
                  "n","o","p","q","r","s","t","u","v","w","x","y","z">>

DigitChars == <<"0","1","2","3","4","5","6","7","8","9">>

Range(s) == {s[i] : i \in DOMAIN s}

IndexOf(c, s) == CHOOSE i \in DOMAIN s : s[i] = c

IsDigit(c) == c \in Range(DigitChars)

DigitValue(c) == IndexOf(c, DigitChars) - 1

toUpperCaseChar(c) ==
    IF c \in Range(LowerLetters) THEN UpperLetters[IndexOf(c, LowerLetters)]
    ELSE c

toLowerCaseChar(c) ==
    IF c \in Range(UpperLetters) THEN LowerLetters[IndexOf(c, UpperLetters)]
    ELSE c

toUpperCase(s) == [i \in 1..Len(s) |-> toUpperCaseChar(s[i])]

toLowerCase(s) == [i \in 1..Len(s) |-> toLowerCaseChar(s[i])]

\* String.prototype.includes
includes(s, q) ==
    \E i \in 0..(Len(s) - Len(q)) : SubSeq(s, i + 1, i + Len(q)) = q

\* parseInt(s, 10) of a string of decimal digits
RECURSIVE parseInt(_)
parseInt(s) ==
    IF s = << >> THEN 0
    ELSE 10 * parseInt(SubSeq(s, 1, Len(s) - 1)) + DigitValue(s[Len(s)])

-----------------------------------------------------------------------------
(* Custom validators *)

\* /^[679]\d{8}$/
phoneRegex(s) ==
    /\ Len(s) = 9
    /\ s[1] \in {"6", "7", "9"}
    /\ \A i \in 2..9 : IsDigit(s[i])

phoneValidator(value) ==
    IF value = << >> THEN {}
    ELSE IF phoneRegex(value) THEN {} ELSE {"invalidPhone"}

\* today.getFullYear() - birthDate.getFullYear() >= 18
ageValidator(value, now) ==
    IF value = << >> THEN {}
    ELSE LET age == now[1] - value[1]
         IN  IF age >= 18 THEN {} ELSE {"underAge"}

\* a < b for two dates <<y, m, d>>
DateBefore(a, b) ==
    \/ a[1] < b[1]
    \/ a[1] = b[1] /\ a[2] < b[2]
    \/ a[1] = b[1] /\ a[2] = b[2] /\ a[3] < b[3]

futureDateValidator(value, now) ==
    IF value = << >> THEN {}
    ELSE IF DateBefore(now, value) THEN {} ELSE {"notFutureDate"}

\* dateRangeValidator with r >= d for r > d
dateRangeValidator_AllowEqual(departure, returnDate) ==
    IF departure = << >> \/ returnDate = << >> THEN {}
    ELSE IF ~DateBefore(returnDate, departure) THEN {}
         ELSE {"invalidDateRange"}

dateRangeValidator(departure, returnDate) ==
    IF departure = << >> \/ returnDate = << >> THEN {}
    ELSE IF DateBefore(departure, returnDate) THEN {}
         ELSE {"invalidDateRange"}

\* The letters of the character class of nameRegex beyond a-z and A-Z that
\* the inputs of the model use.
NameDiacritics == {"ñ", "é", "Ñ", "ç"}

\* /^[a-zA-Z...\s]+$/
nameRegex(s) ==
    /\ Len(s) >= 1
    /\ \A i \in 1..Len(s) :
          s[i] \in Range(LowerLetters) \cup Range(UpperLetters)
                     \cup NameDiacritics \cup {" "}

nameValidator(value) ==
    IF value = << >> THEN {}
    ELSE IF nameRegex(value) THEN {} ELSE {"invalidName"}

\* /^\d{8}[A-Z]$/
standardDniRegex(s) ==
    /\ Len(s) = 9
    /\ \A i \in 1..8 : IsDigit(s[i])
    /\ s[9] \in Range(UpperLetters)

letters == <<"T","R","W","A","G","M","Y","F","P","D","X","B",
             "N","J","Z","S","Q","V","H","L","C","K","E">>

dniValidator(value) ==
    IF value = << >> THEN {}
    ELSE LET dni == toUpperCase(value)
         IN  IF ~standardDniRegex(dni) THEN {"invalidDniFormat"}
             ELSE LET number == parseInt(SubSeq(dni, 1, 8))
                      letter == dni[9]
                  IN  IF letters[(number % 23) + 1] = letter THEN {}
                      ELSE {"invalidDniLetter"}


forbiddenEmails ==
    { <<"t","e","s","t","@","t","e","s","t",".","c","o","m">>,
      <<"r","e","s","e","r","v","a","@","v","i","a","j","e","s",".","c","o","m">>,
      <<"a","d","m","i","n","@","t","r","a","v","e","l",".","c","o","m">> }

\* emailAsyncValidator comparing without regard to case
emailAsyncValidator_IgnoreCase(email) ==
    IF toLowerCase(email) \in forbiddenEmails THEN {"emailTaken"} ELSE {}

\* The map stage of the observable: what is delivered delay(1000) after the
\* validator was subscribed for control.value = email
emailAsyncValidator(email) ==
    IF email \in forbiddenEmails THEN {"emailTaken"} ELSE {}

-----------------------------------------------------------------------------
(* Validators of @angular/forms named in the constructor *)

\* Validators.required on a text control
requiredText(value) == IF value = << >> THEN {"required"} ELSE {}

\* Validators.required on a control holding an enumerated string
requiredChoice(value) == IF value = "" THEN {"required"} ELSE {}

\* Validators.required on the number control
requiredNumber(value) == IF value.null THEN {"required"} ELSE {}

\* Validators.requiredTrue
requiredTrue(value) == IF value = TRUE THEN {} ELSE {"required"}

MinNameLength == 3

\* Validators.minLength(3)
minLength(value) ==
    IF value = << >> THEN {}
    ELSE IF Len(value) < MinNameLength THEN {"minlength"} ELSE {}

MinPassengers == 1

MaxPassengers == 10

\* Validators.min(1)
min(value) ==
    IF value.null THEN {}
    ELSE IF value.num < MinPassengers THEN {"min"} ELSE {}

\* Validators.max(10)
max(value) ==
    IF value.null THEN {}
    ELSE IF value.num > MaxPassengers THEN {"max"} ELSE {}

IsAlnum(c) ==
    c \in Range(LowerLetters) \cup Range(UpperLetters) \cup Range(DigitChars)

\* a dot-separated run of non-empty alphanumeric labels
DotAtom(s) ==
    /\ Len(s) >= 1
    /\ \A i \in 1..Len(s) : IsAlnum(s[i]) \/ s[i] = "."
    /\ s[1] # "." /\ s[Len(s)] # "."
    /\ \A i \in 1..(Len(s) - 1) : ~(s[i] = "." /\ s[i + 1] = ".")

\* Validators.email, on the alphabet of the model: local@domain
email(value) ==
    IF value = << >> THEN {}
    ELSE IF \E i \in 1..Len(value) :
               /\ value[i] = "@"
               /\ DotAtom(SubSeq(value, 1, i - 1))
               /\ DotAtom(SubSeq(value, i + 1, Len(value)))
         THEN {} ELSE {"email"}

-----------------------------------------------------------------------------
(* The component *)

NumberValue(n) == [null |-> FALSE, num |-> n]

\* the value of a cleared number input; null - 1 is -1 and null is falsy
NullValue == [null |-> TRUE, num |-> 0]

\* the group pushed by adjustPassengers
EmptyPassenger == [name |-> << >>, age |-> << >>, relation |-> << >>]

basePrices == [tourist |-> 100, business |-> 250, firstClass |-> 500]

calculatePrice(travelClass, passengers) ==
    IF travelClass # "" /\ ~passengers.null /\ passengers.num # 0
    THEN (IF travelClass \in DOMAIN basePrices
          THEN basePrices[travelClass] ELSE 0) * passengers.num
    ELSE 0

\* removeAt(0) for removeAt(i - 1): the first record goes, not the last
removeAt_First(controls, index) ==
    IF controls = << >> THEN controls ELSE Tail(controls)

\* FormArray.removeAt(index): a negative index counts from the end, an
\* index past the end removes nothing
removeAt(controls, index) ==
    LET adjusted == IF index < 0
                    THEN (IF index + Len(controls) > 0
                          THEN index + Len(controls) ELSE 0)
                    ELSE index
    IN  IF adjusted < Len(controls)
        THEN SubSeq(controls, 1, adjusted)
               \o SubSeq(controls, adjusted + 2, Len(controls))
        ELSE controls

\* for (let i = currentCount; i < needed; i++) push(...)
RECURSIVE PushLoop(_, _, _)
PushLoop(controls, i, needed) ==
    IF i < needed
    THEN PushLoop(Append(controls, EmptyPassenger), i + 1, needed)
    ELSE controls

\* for (let i = currentCount; i > needed; i--) removeAt(i - 1)
RECURSIVE RemoveLoop(_, _, _)
RemoveLoop(controls, i, needed) ==
    IF i > needed
    THEN RemoveLoop(removeAt(controls, i - 1), i - 1, needed)
    ELSE controls

\* adjustPassengers with needed = num
adjustPassengers_OffByOne(controls, num) ==
    LET currentCount == Len(controls)
        needed == num
    IN  IF needed > currentCount THEN PushLoop(controls, currentCount, needed)
        ELSE IF needed < currentCount
             THEN RemoveLoop(controls, currentCount, needed)
             ELSE controls

\* adjustPassengers bounded by the max(10) of the passengers control
adjustPassengers_Clamped(controls, num) ==
    LET currentCount == Len(controls)
        needed == (IF num > MaxPassengers THEN MaxPassengers ELSE num) - 1
    IN  IF needed > currentCount THEN PushLoop(controls, currentCount, needed)
        ELSE IF needed < currentCount
             THEN RemoveLoop(controls, currentCount, needed)
             ELSE controls

adjustPassengers(controls, num) ==
    LET currentCount == Len(controls)
        needed == num - 1
    IN  IF needed > currentCount THEN PushLoop(controls, currentCount, needed)
        ELSE IF needed < currentCount
             THEN RemoveLoop(controls, currentCount, needed)
             ELSE controls

\* the value of searchControl when the runtime delivers null
NullQuery == <<"null">>

\* the filter without d.toLowerCase()
FilterDestinations_CaseSensitive(list, value) ==
    LET query == toLowerCase(IF value = NullQuery THEN << >> ELSE value)
    IN  SelectSeq(list, LAMBDA d : includes(d, query))

\* the valueChanges subscription of ngOnInit
FilterDestinations(list, value) ==
    LET query == toLowerCase(IF value = NullQuery THEN << >> ELSE value)
    IN  SelectSeq(list, LAMBDA d : includes(toLowerCase(d), query))

InitialDestinations ==
    << <<"B","a","r","c","e","l","o","n","a">>,
       <<"M","a","d","r","i","d">>,
       <<"V","a","l","e","n","c","i","a">>,
       <<"S","e","v","i","l","l","a">>,
       <<"B","i","l","b","a","o">>,
       <<"M","a","l","l","o","r","c","a">> >>

\* onSubmit testing !bookingForm.invalid for bookingForm.valid
onSubmit_NotInvalid(status) ==
    IF status # "INVALID" THEN "Form Submitted" ELSE "Form Invalid"

onSubmit(status) ==
    IF status = "VALID" THEN "Form Submitted" ELSE "Form Invalid"

-----------------------------------------------------------------------------
(* The form built by the constructor, and the status the forms runtime      *)
(* derives from the validators registered there                             *)

\* the errors of each control under the validators of lines 116-128
fullNameErrors(v) == requiredText(v) \cup minLength(v) \cup nameValidator(v)

dniErrors(v) == requiredText(v) \cup dniValidator(v)

emailSyncErrors(v) == requiredText(v) \cup email(v)

phoneErrors(v) == requiredText(v) \cup phoneValidator(v)

birthDateErrors(v, now) == requiredText(v) \cup ageValidator(v, now)

departureDateErrors(v, now) == requiredText(v) \cup futureDateValidator(v, now)

passengersErrors(v) == requiredNumber(v) \cup min(v) \cup max(v)

\* name, age and relation of a pushed group are Validators.required
PassengerGroupValid(g) ==
    /\ requiredText(g.name) = {}
    /\ requiredText(g.age) = {}
    /\ requiredText(g.relation) = {}

\* the controls with synchronous validators only
SyncControls == {"fullName", "dni", "phone", "birthDate", "destination",
                 "departureDate", "returnDate", "tripType", "travelClass",
                 "passengers", "terms", "newsletter"}

\* bookingForm.status: the group's own errors, then a pending child, then an
\* invalid child
FormStatus(value, errs, groupErrors, mailStatus) ==
    IF groupErrors # {} THEN "INVALID"
    ELSE IF mailStatus = "PENDING" THEN "PENDING"
    ELSE IF \/ mailStatus = "INVALID"
            \/ \E c \in SyncControls : errs[c] # {}
            \/ \E i \in DOMAIN value.additionalPassengers :
                  ~PassengerGroupValid(value.additionalPassengers[i])
         THEN "INVALID"
         ELSE "VALID"

InitialValue ==
    [fullName |-> << >>, dni |-> << >>, email |-> << >>, phone |-> << >>,
     birthDate |-> << >>, destination |-> "", departureDate |-> << >>,
     returnDate |-> << >>, tripType |-> "oneWay", travelClass |-> "tourist",
     passengers |-> NumberValue(1), additionalPassengers |-> << >>,
     terms |-> FALSE, newsletter |-> FALSE]

InitialErrors(now) ==
    [fullName |-> fullNameErrors(InitialValue.fullName),
     dni |-> dniErrors(InitialValue.dni),
     email |-> emailSyncErrors(InitialValue.email),
     phone |-> phoneErrors(InitialValue.phone),
     birthDate |-> birthDateErrors(InitialValue.birthDate, now),
     destination |-> requiredChoice(InitialValue.destination),
     departureDate |-> departureDateErrors(InitialValue.departureDate, now),
     returnDate |-> requiredText(InitialValue.returnDate),
     tripType |-> requiredChoice(InitialValue.tripType),
     travelClass |-> requiredChoice(InitialValue.travelClass),
     passengers |-> passengersErrors(InitialValue.passengers),
     terms |-> requiredTrue(InitialValue.terms),
     newsletter |-> {}]

\* the state after the constructor and ngOnInit, the session starting at now
InitAt(now) ==
    /\ today = now
    /\ bookingForm = InitialValue
    /\ errors = InitialErrors(now)
    /\ formErrors = dateRangeValidator(InitialValue.departureDate,
                                       InitialValue.returnDate)
    /\ emailStatus = "INVALID"
    /\ emailChecks = {}
    /\ emailSuperseded = FALSE
    /\ totalPrice = calculatePrice(InitialValue.travelClass,
                                   InitialValue.passengers)
    /\ destinations = InitialDestinations
    /\ filteredDestinations = InitialDestinations
    /\ searchControl = << >>
    /\ consoleLog = ""

emailVars == <<emailStatus, emailChecks, emailSuperseded>>

searchVars == <<destinations, filteredDestinations, searchControl>>

\* calculatePrice reading the value of before the change
UpdateForm_StalePrice(newValue) ==
    /\ bookingForm' = newValue
    /\ formErrors' = dateRangeValidator(newValue.departureDate,
                                        newValue.returnDate)
    /\ totalPrice' = calculatePrice(bookingForm.travelClass,
                                    bookingForm.passengers)

\* A change of the form's value: the group validator runs again and
\* bookingForm.valueChanges calls calculatePrice
UpdateForm(newValue) ==
    /\ bookingForm' = newValue
    /\ formErrors' = dateRangeValidator(newValue.departureDate,
                                        newValue.returnDate)
    /\ totalPrice' = calculatePrice(newValue.travelClass, newValue.passengers)

\* what a change of a control other than email leaves alone
untouched == <<emailVars, searchVars, today, consoleLog>>

\* A change of one control with synchronous validators: the control's
\* validators run, then the form's
SetFullName(v) ==
    /\ UpdateForm([bookingForm EXCEPT !.fullName = v])
    /\ errors' = [errors EXCEPT !.fullName = fullNameErrors(v)]
    /\ UNCHANGED untouched

SetDni(v) ==
    /\ UpdateForm([bookingForm EXCEPT !.dni = v])
    /\ errors' = [errors EXCEPT !.dni = dniErrors(v)]
    /\ UNCHANGED untouched

SetPhone(v) ==
    /\ UpdateForm([bookingForm EXCEPT !.phone = v])
    /\ errors' = [errors EXCEPT !.phone = phoneErrors(v)]
    /\ UNCHANGED untouched

SetBirthDate(v) ==
    /\ UpdateForm([bookingForm EXCEPT !.birthDate = v])
    /\ errors' = [errors EXCEPT !.birthDate = birthDateErrors(v, today)]
    /\ UNCHANGED untouched

SetDestination(v) ==
    /\ UpdateForm([bookingForm EXCEPT !.destination = v])
    /\ errors' = [errors EXCEPT !.destination = requiredChoice(v)]
    /\ UNCHANGED untouched

SetDepartureDate(v) ==
    /\ UpdateForm([bookingForm EXCEPT !.departureDate = v])
    /\ errors' = [errors EXCEPT !.departureDate = departureDateErrors(v, today)]
    /\ UNCHANGED untouched

SetReturnDate(v) ==
    /\ UpdateForm([bookingForm EXCEPT !.returnDate = v])
    /\ errors' = [errors EXCEPT !.returnDate = requiredText(v)]
    /\ UNCHANGED untouched

SetTripType(v) ==
    /\ UpdateForm([bookingForm EXCEPT !.tripType = v])
    /\ errors' = [errors EXCEPT !.tripType = requiredChoice(v)]
    /\ UNCHANGED untouched

SetTravelClass(v) ==
    /\ UpdateForm([bookingForm EXCEPT !.travelClass = v])
    /\ errors' = [errors EXCEPT !.travelClass = requiredChoice(v)]
    /\ UNCHANGED untouched

SetTerms(v) ==
    /\ UpdateForm([bookingForm EXCEPT !.terms = v])
    /\ errors' = [errors EXCEPT !.terms = requiredTrue(v)]
    /\ UNCHANGED untouched

SetNewsletter(v) ==
    /\ UpdateForm([bookingForm EXCEPT !.newsletter = v])
    /\ errors' = [errors EXCEPT !.newsletter = {}]
    /\ UNCHANGED untouched

\* A change of passengers: its valueChanges subscription (setupPassengersSync)
\* runs adjustPassengers before the change reaches the form
SetPassengers(v) ==
    /\ UpdateForm([bookingForm EXCEPT
          !.passengers = v,
          !.additionalPassengers = adjustPassengers(@, v.num)])
    /\ errors' = [errors EXCEPT !.passengers = passengersErrors(v)]
    /\ UNCHANGED untouched

\* The user edits one field of an additional passenger
EditAdditionalPassenger(i, f, v) ==
    /\ i \in DOMAIN bookingForm.additionalPassengers
    /\ UpdateForm([bookingForm EXCEPT !.additionalPassengers[i][f] = v])
    /\ UNCHANGED <<errors, untouched>>

\* A change of email: the synchronous validators run, the subscription of
\* the previous asynchronous validation is dropped, and emailAsyncValidator
\* is subscribed when the synchronous validators pass
SetEmail(v) ==
    /\ UpdateForm([bookingForm EXCEPT !.email = v])
    /\ errors' = [errors EXCEPT !.email = emailSyncErrors(v)]
    /\ emailSuperseded' = (emailChecks # {})
    /\ IF emailSyncErrors(v) = {}
       THEN /\ emailStatus' = "PENDING"
            /\ emailChecks' = {v}
       ELSE /\ emailStatus' = "INVALID"
            /\ emailChecks' = {}
    /\ UNCHANGED <<searchVars, today, consoleLog>>

\* delay(1000) of a subscribed validation elapses: its outcome becomes the
\* errors of the email control
EmailValidated(v) ==
    /\ v \in emailChecks
    /\ emailChecks' = emailChecks \ {v}
    /\ errors' = [errors EXCEPT !.email = emailAsyncValidator(v)]
    /\ emailStatus' = IF emailAsyncValidator(v) = {} THEN "VALID" ELSE "INVALID"
    /\ UNCHANGED <<bookingForm, formErrors, totalPrice, emailSuperseded,
                   searchVars, today, consoleLog>>

\* searchControl.valueChanges
SetSearch(value) ==
    /\ searchControl' = value
    /\ filteredDestinations' = FilterDestinations(destinations, value)
    /\ UNCHANGED <<bookingForm, errors, formErrors, emailVars, totalPrice,
                   destinations, today, consoleLog>>

OnSubmit ==
    /\ consoleLog' = onSubmit(FormStatus(bookingForm, errors, formErrors,
                                         emailStatus))
    /\ UNCHANGED <<bookingForm, errors, formErrors, emailVars, totalPrice,
                   searchVars, today>>

-----------------------------------------------------------------------------
(* Inputs *)

Today == <<2026, 11, 5>>

\* how far below 1 and above 10 the passenger counts tried reach
BelowRange == 3

AboveRange == 2

PassengerInputs ==
    {NumberValue(n) :
        n \in (MinPassengers - BelowRange)..(MaxPassengers + AboveRange)}
      \cup {NullValue}

TravelClassInputs == {"tourist", "business", "firstClass", "premium", ""}

\* the additional passengers the user edits are the first MaxEditIndex
MaxEditIndex == 2

PassengerFields == {"name", "age", "relation"}

PassengerTexts == {<< >>, <<"x">>}

\* DNI / NIE inputs: a first character, seven digits, a last character
DniHeads == {"0", "1", "2", "X", "x", "Y", "Z", "A"}

DniBodies == { <<"1","2","3","4","5","6","7">>,
               <<"0","0","0","0","0","0","0">>,
               <<"2","3","4","5","6","7","8">> }

DniTails == {"T", "R", "L", "l", "Z", "S", "7"}

DniInputs ==
    {<<h>> \o b \o <<t>> : h \in DniHeads, b \in DniBodies, t \in DniTails}
      \cup {<<h>> \o b : h \in DniHeads, b \in DniBodies}
      \cup {<< >>}

BirthDateInputs ==
    {<<y, m, d>> : y \in 2007..2009, m \in {1, 11, 12}, d \in {4, 5, 6}}
      \cup {<< >>}

Todays == {Today, <<2026, 1, 1>>, <<2026, 12, 31>>, <<2027, 11, 5>>}

DateInputs ==
    {<<y, m, d>> : y \in {2025, 2027}, m \in {1, 12}, d \in {5, 10, 28}}
      \cup {<< >>}

EmailLocals == { <<"t","e","s","t">>, <<"T","e","s","t">>, <<"a">>,
                 <<"r","e","s","e","r","v","a">>, <<"a","d","m","i","n">>,
                 <<"A","D","M","I","N">> }

EmailDomains == { <<"t","e","s","t",".","c","o","m">>,
                  <<"v","i","a","j","e","s",".","c","o","m">>,
                  <<"t","r","a","v","e","l",".","c","o","m">>,
                  <<"a",".","c","o","m">> }

EmailInputs ==
    {l \o <<"@">> \o d : l \in EmailLocals, d \in EmailDomains}
      \cup EmailLocals \cup {<< >>}

QueryChars == {"m", "a", "M", "A", "l", "b", "B", "i", "z", " "}

MaxQueryLen == 2

QueryInputs ==
    UNION {[1..n -> QueryChars] : n \in 0..MaxQueryLen} \cup {NullQuery}

\* the inputs of the whole-form specification: per control one value that
\* passes its validators and one that does not
ValidName == <<"A","n","a">>

ValidDni == <<"0","1","2","3","4","5","6","7","L">>

ValidPhone == <<"6","1","2","3","4","5","6","7","8">>

AdultBirthDate == <<1990, 6, 15>>

NotTakenEmail == <<"a","@","a",".","c","o","m">>

TakenEmail == <<"t","e","s","t","@","t","e","s","t",".","c","o","m">>

Departure == <<2027, 1, 5>>

LaterReturn == <<2027, 1, 10>>

-----------------------------------------------------------------------------
(* Specifications *)

Init == InitAt(Today)

\* the synchroniser and the price calculator
NextPassengers ==
    \/ \E v \in PassengerInputs : SetPassengers(v)
    \/ \E v \in TravelClassInputs : SetTravelClass(v)
    \/ \E i \in 1..MaxEditIndex, f \in PassengerFields, v \in PassengerTexts :
          EditAdditionalPassenger(i, f, v)

SpecPassengers == Init /\ [][NextPassengers]_vars

\* the national ID control
NextDni == \E v \in DniInputs : SetDni(v)

SpecDni == Init /\ [][NextDni]_vars

\* the birth date control, in sessions started on different days
InitBirthDate == \E now \in Todays : InitAt(now)

NextBirthDate == \E v \in BirthDateInputs : SetBirthDate(v)

SpecBirthDate == InitBirthDate /\ [][NextBirthDate]_vars

\* the two dates of the cross-field rule
NextDates ==
    \/ \E v \in DateInputs : SetDepartureDate(v)
    \/ \E v \in DateInputs : SetReturnDate(v)

SpecDates == Init /\ [][NextDates]_vars

\* the email control and its asynchronous validator
NextEmail ==
    \/ \E v \in EmailInputs : SetEmail(v)
    \/ \E v \in EmailInputs : EmailValidated(v)

SpecEmail == Init /\ [][NextEmail]_vars

\* the destination search
NextSearch == \E v \in QueryInputs : SetSearch(v)

SpecSearch == Init /\ [][NextSearch]_vars

\* the whole form and onSubmit
NextForm ==
    \/ \E v \in {<< >>, ValidName} : SetFullName(v)
    \/ \E v \in {<< >>, ValidDni} : SetDni(v)
    \/ \E v \in {<< >>, NotTakenEmail, TakenEmail} : SetEmail(v)
    \/ \E v \in {NotTakenEmail, TakenEmail} : EmailValidated(v)
    \/ \E v \in {<< >>, ValidPhone} : SetPhone(v)
    \/ \E v \in {<< >>, AdultBirthDate} : SetBirthDate(v)
    \/ \E v \in {"", "Madrid"} : SetDestination(v)
    \/ \E v \in {<< >>, Departure} : SetDepartureDate(v)
    \/ \E v \in {<< >>, Departure, LaterReturn} : SetReturnDate(v)
    \/ \E v \in {NumberValue(0), NumberValue(1), NumberValue(2)} :
          SetPassengers(v)
    \/ \E i \in 1..MaxEditIndex, f \in PassengerFields, v \in PassengerTexts :
          EditAdditionalPassenger(i, f, v)
    \/ \E v \in BOOLEAN : SetTerms(v)
    \/ OnSubmit

SpecForm == Init /\ [][NextForm]_vars

Next ==
    \/ NextPassengers
    \/ NextDni
    \/ NextBirthDate
    \/ NextDates
    \/ NextEmail
    \/ NextSearch
    \/ NextForm
    \/ \E v \in {"oneWay", "roundTrip", ""} : SetTripType(v)
    \/ \E v \in BOOLEAN : SetNewsletter(v)

Spec == Init /\ [][Next]_vars

-----------------------------------------------------------------------------
(* Claims *)

passengerCount == bookingForm.passengers.num

additional == bookingForm.additionalPassengers

\* C1: after a passenger-count change to N in 1..10 (and initially, N = 1)
\* the additional-passenger collection holds exactly N - 1 records, so that
\* coming back to a count restores the record count.
C1_RecordCount ==
    (~bookingForm.passengers.null /\ passengerCount \in 1..10)
        => Len(additional) = passengerCount - 1

C1_Witness ==
    /\ passengerCount = 4
    /\ Len(additional) = 3
    /\ additional[1].name = <<"x">>

\* C2: once no uniqueness check is in flight, the email control carries
\* emailTaken iff the latest email value is in the denylist, also when the
\* latest change replaced a check that had not resolved.
C2_LastValueWins ==
    emailChecks = {}
        => ("emailTaken" \in errors.email
              <=> bookingForm.email \in forbiddenEmails)

C2_Witness ==
    /\ emailSuperseded
    /\ emailChecks = {}
    /\ bookingForm.email = TakenEmail
    /\ errors.email = {"emailTaken"}

C3_BaseRate(class) ==
    CASE class = "tourist" -> 100
      [] class = "business" -> 250
      [] class = "firstClass" -> 500
      [] OTHER -> 0

C4_NoFailure ==
    /\ \A c \in SyncControls \cup {"email"} : errors[c] = {}
    /\ emailChecks = {}
    /\ formErrors = {}
    /\ \A i \in DOMAIN additional :
          /\ additional[i].name # << >>
          /\ additional[i].age # << >>
          /\ additional[i].relation # << >>

\* C4: onSubmit takes the submitted path exactly when nothing carries a
\* validation failure and the email check has settled, and the refused path
\* in every other state.
C4_SubmitOnlyWhenValid ==
    [][OnSubmit =>
          /\ C4_NoFailure => consoleLog' = "Form Submitted"
          /\ ~C4_NoFailure => consoleLog' = "Form Invalid"]_vars

C4_Witness ==
    /\ consoleLog = "Form Submitted"
    /\ C4_NoFailure
    /\ passengerCount = 2
    /\ bookingForm.email = NotTakenEmail

\* the rule of C5 for a non-empty value: uppercase, a leading X, Y or Z
\* becomes 0, 1 or 2, then the shape, then the letter
C5_Outcome(value) ==
    LET upper == toUpperCase(value)
        normal == IF upper[1] = "X" THEN <<"0">> \o Tail(upper)
                  ELSE IF upper[1] = "Y" THEN <<"1">> \o Tail(upper)
                  ELSE IF upper[1] = "Z" THEN <<"2">> \o Tail(upper)
                  ELSE upper
    IN  IF ~(/\ Len(normal) = 9
             /\ \A i \in 1..8 : normal[i] \in Range(DigitChars)
             /\ normal[9] \in Range(UpperLetters))
        THEN {"invalidDniFormat"}
        ELSE IF letters[(parseInt(SubSeq(normal, 1, 8)) % 23) + 1] = normal[9]
             THEN {}
             ELSE {"invalidDniLetter"}

\* C5: the outcome of the national ID validation of a non-empty value is
\* that of the rule with the NIE normalisation.
C5_DniRule ==
    bookingForm.dni # << >> => errors.dni = C5_Outcome(bookingForm.dni)

\* whole years between birth and now
C6_Age(birth, now) ==
    (now[1] - birth[1])
      - (IF now[2] < birth[2] \/ (now[2] = birth[2] /\ now[3] < birth[3])
         THEN 1 ELSE 0)

\* C6: a non-empty birth date passes iff the age in whole years, counting
\* month and day, is at least 18, and is underAge otherwise.
C6_AgeRule ==
    bookingForm.birthDate # << >>
        => errors.birthDate = IF C6_Age(bookingForm.birthDate, today) >= 18
                              THEN {} ELSE {"underAge"}

C7_DayNumber(d) == (d[1] * 12 + (d[2] - 1)) * 31 + (d[3] - 1)

\* C7: the whole form, and no single field, carries invalidDateRange exactly
\* when both dates are present and the return date is not strictly later
\* than the departure date.
C7_DateRange ==
    /\ "invalidDateRange" \in formErrors
         <=> /\ bookingForm.departureDate # << >>
             /\ bookingForm.returnDate # << >>
             /\ C7_DayNumber(bookingForm.returnDate)
                  <= C7_DayNumber(bookingForm.departureDate)
    /\ \A c \in DOMAIN errors : "invalidDateRange" \notin errors[c]

C7_Witness ==
    /\ bookingForm.departureDate = <<2025, 1, 10>>
    /\ bookingForm.returnDate = <<2025, 1, 10>>
    /\ formErrors = {"invalidDateRange"}

C8_Matches(d, value) ==
    LET q == IF value = NullQuery THEN << >> ELSE value
    IN  \E i \in 1..(Len(d) + 1) :
          /\ i + Len(q) - 1 <= Len(d)
          /\ \A k \in 1..Len(q) :
                toLowerCaseChar(d[i + k - 1]) = toLowerCaseChar(q[k])

\* C8: filteredDestinations is, in list order, the destinations whose
\* lower-cased name contains the lower-cased latest query; an empty or
\* absent query gives the whole list; the list itself never changes.
C8_Filter ==
    /\ destinations = InitialDestinations
    /\ \A i \in DOMAIN destinations :
          destinations[i] \in Range(filteredDestinations)
            <=> C8_Matches(destinations[i], searchControl)
    /\ \A i, j \in DOMAIN filteredDestinations :
          i < j => \E a, b \in DOMAIN destinations :
                      /\ a < b
                      /\ destinations[a] = filteredDestinations[i]
                      /\ destinations[b] = filteredDestinations[j]
    /\ \A i \in DOMAIN filteredDestinations :
          filteredDestinations[i] \in Range(destinations)
    /\ searchControl \in {<< >>, NullQuery}
          => filteredDestinations = destinations

C8_Witness ==
    /\ searchControl = <<"m", "a">>
    /\ filteredDestinations = << <<"M","a","d","r","i","d">>,
                                 <<"M","a","l","l","o","r","c","a">> >>

\* a step that is a passenger-count change (to the value the step leaves in
\* the passengers control)
C9_CountChange == SetPassengers(bookingForm'.passengers)

\* C9: a passenger-count change keeps the surviving records at their index
\* with their contents, appends only empty records at the end, removes from
\* the end, and leaves the collection alone when the count already fits.
C9_Frame ==
    [][C9_CountChange =>
          LET old == bookingForm.additionalPassengers
              new == bookingForm'.additionalPassengers
          IN  /\ \A i \in DOMAIN old \cap DOMAIN new : new[i] = old[i]
              /\ \A i \in DOMAIN new \ DOMAIN old : new[i] = EmptyPassenger
              /\ bookingForm'.passengers.num - 1 = Len(old) => new = old]_vars

C9_Witness ==
    /\ passengerCount = 3
    /\ Len(additional) = 2
    /\ additional[1] = [name |-> <<"x">>, age |-> << >>, relation |-> <<"x">>]
    /\ additional[2] = EmptyPassenger

\* C10: a passenger-count change to any integer N, inside 1..10 or not,
\* leaves max(N - 1, 0) records, and leaves the passenger-count and
\* travel-class fields as the change set them.
C10_Unbounded ==
    [][\A v \in PassengerInputs :
          (~v.null /\ SetPassengers(v)) =>
              /\ Len(bookingForm'.additionalPassengers)
                   = IF v.num - 1 > 0 THEN v.num - 1 ELSE 0
              /\ bookingForm'.passengers = v
              /\ bookingForm'.travelClass = bookingForm.travelClass]_vars

C10_Witness ==
    /\ passengerCount = 12
    /\ Len(additional) = 11
    /\ errors.passengers = {"max"}

=============================================================================
